---- MODULE Spec2Model ----
(***************************************************************************)
(* Model of scripts/docs_openapi_converter.py: the in-place conversion of  *)
(* a parsed JSON document from OpenAPI 3.1.0 to 3.0.2                      *)
(* (convert_3_dot_1_to_3_dot_0 and its closure inner), and the             *)
(* load_and_convert pipeline around it.                                    *)
(*                                                                         *)
(* A JSON value is a tagged record.  A dict keeps its items in insertion   *)
(* order, as a Python dict does: inner walks yaml_dict.values() in that    *)
(* order while it reads the root document, so the order is observable.     *)
(***************************************************************************)
EXTENDS Integers, Sequences, FiniteSets, TLC

VARIABLES
    pc,       \* position of the running code
    doc,      \* json_content / content: the tree that is mutated in place
    todo,     \* paths of the pending calls of inner, next call first
    calls,    \* number of calls of convert_3_dot_1_to_3_dot_0 that returned
    first,    \* the tree returned by the first call
    arg,      \* the document as it was handed over (the source file's content)
    exc,      \* the exception in flight, "none" when there is none
    src,      \* the source file: "ok", "missing", "unreadable", "directory",
              \* "malformed", "badutf8" (not UTF-8), "toodeep" (nesting too deep)
    destEnv,  \* the destination path: "ok", "nodir" (no such directory),
              \* "denied", "directory"
    diskOK,   \* whether the write of the destination succeeds
    dest,     \* the destination file: "untouched", "truncated", "written"
    log       \* the logger.error messages emitted

vars == <<pc, doc, todo, calls, first, arg, exc, src, destEnv, diskOK, dest, log>>

----------------------------------------------------------------------------
(* JSON values *)

Str(s)  == [t |-> "str", s |-> s]
Num(n)  == [t |-> "num", n |-> n]
Bool(b) == [t |-> "bool", b |-> b]
Null    == [t |-> "null"]
List(e) == [t |-> "list", e |-> e]
Dict(f) == [t |-> "dict", f |-> f]

IsDict(v) == v.t = "dict"
IsList(v) == v.t = "list"

(* key in d *)
Has(d, k) == \E i \in 1..Len(d.f) : d.f[i][1] = k

IndexOf(d, k) == CHOOSE i \in 1..Len(d.f) : d.f[i][1] = k

(* d[k] *)
GetItem(d, k) == d.f[IndexOf(d, k)][2]

(* d.get(k, default) *)
DictGet(d, k, default) == IF Has(d, k) THEN GetItem(d, k) ELSE default

(* d[k] = v: an existing key keeps its place, a new key goes last *)
SetItem(d, k, v) ==
    IF Has(d, k)
    THEN Dict([d.f EXCEPT ![IndexOf(d, k)] = <<k, v>>])
    ELSE Dict(Append(d.f, <<k, v>>))

IsNotKey(item, k) == item[1] # k

(* d.pop(k, default): the dict that is left *)
Pop(d, k) == Dict(SelectSeq(d.f, LAMBDA item : IsNotKey(item, k)))

(* len(v) is defined for list, dict and str; it raises TypeError otherwise *)
HasLen(v) == v.t \in {"list", "dict", "str"}

PyLen(v) ==
    CASE v.t = "list" -> Len(v.e)
      [] v.t = "dict" -> Len(v.f)
      [] v.t = "str"  -> Len(v.s)

(* the children of a node, in iteration order: dict values, list items *)
NumChildren(v) ==
    CASE v.t = "dict" -> Len(v.f)
      [] v.t = "list" -> Len(v.e)
      [] OTHER        -> 0

Child(v, i) == IF v.t = "dict" THEN v.f[i][2] ELSE v.e[i]

WithChild(v, i, c) ==
    IF v.t = "dict"
    THEN Dict([v.f EXCEPT ![i] = <<v.f[i][1], c>>])
    ELSE List([v.e EXCEPT ![i] = c])

(* a path names a node by the child positions that lead to it from the root *)
RECURSIVE GetAt(_, _)
GetAt(v, p) == IF p = <<>> THEN v ELSE GetAt(Child(v, Head(p)), Tail(p))

RECURSIVE SetAt(_, _, _)
SetAt(v, p, n) ==
    IF p = <<>> THEN n
    ELSE WithChild(v, Head(p), SetAt(Child(v, Head(p)), Tail(p), n))

RECURSIVE Paths(_)
Paths(v) ==
    {<<>>} \cup UNION {{<<i>> \o q : q \in Paths(Child(v, i))} : i \in 1..NumChildren(v)}

----------------------------------------------------------------------------
(* convert_3_dot_1_to_3_dot_0 *)

(* variant: json_content.setdefault("openapi", "3.0.2") *)
StampDefault(root) ==
    IF Has(root, "openapi") THEN root ELSE SetItem(root, "openapi", Str("3.0.2"))

(* json_content["openapi"] = "3.0.2" *)
Stamp(root) == SetItem(root, "openapi", Str("3.0.2"))

(* the condition of the comprehension: not (isinstance(item, dict) and
   item.get("type") == "null") *)
KeepItem(item) == ~(IsDict(item) /\ DictGet(item, "type", Null) = Str("null"))

Filtered(l) == List(SelectSeq(l.e, KeepItem))

(* json_content.get("anyOf", []): read on the root while inner runs *)
RootAnyOf(root) == DictGet(root, "anyOf", List(<<>>))

(* variant: the filtered list is compared with the list as found on the node *)
RuleALocal(root, p) ==
    LET n == GetAt(root, p) IN
    IF Has(n, "anyOf") /\ IsList(GetItem(n, "anyOf"))
    THEN LET kept == Filtered(GetItem(n, "anyOf"))
             n1   == SetItem(n, "anyOf", kept)
         IN  IF PyLen(kept) < PyLen(GetItem(n, "anyOf"))
             THEN [doc |-> SetAt(root, p, SetItem(n1, "nullable", Bool(TRUE))),
                   raised |-> FALSE]
             ELSE [doc |-> SetAt(root, p, n1), raised |-> FALSE]
    ELSE [doc |-> root, raised |-> FALSE]

(* variant: an anyOf list that filtering empties is deleted *)
RuleADrop(root, p) ==
    LET n == GetAt(root, p) IN
    IF Has(n, "anyOf") /\ IsList(GetItem(n, "anyOf"))
    THEN LET kept  == Filtered(GetItem(n, "anyOf"))
             n1    == IF kept.e = <<>> THEN Pop(n, "anyOf") ELSE SetItem(n, "anyOf", kept)
             root1 == SetAt(root, p, n1)
             other == RootAnyOf(root1)
         IN  IF ~HasLen(other)
             THEN [doc |-> root1, raised |-> TRUE]
             ELSE IF PyLen(kept) < PyLen(other)
                  THEN [doc |-> SetAt(root1, p, SetItem(n1, "nullable", Bool(TRUE))),
                        raised |-> FALSE]
                  ELSE [doc |-> root1, raised |-> FALSE]
    ELSE [doc |-> root, raised |-> FALSE]

(* "Handle `anyOf` conversion" on the dict at path p of the tree root.
   raised: len() was applied to a value that has none (TypeError). *)
RuleA(root, p) ==
    LET n == GetAt(root, p) IN
    IF Has(n, "anyOf") /\ IsList(GetItem(n, "anyOf"))
    THEN LET kept  == Filtered(GetItem(n, "anyOf"))
             n1    == SetItem(n, "anyOf", kept)
             root1 == SetAt(root, p, n1)
             other == RootAnyOf(root1)
         IN  IF ~HasLen(other)
             THEN [doc |-> root1, raised |-> TRUE]
             ELSE IF PyLen(kept) < PyLen(other)
                  THEN [doc |-> SetAt(root1, p, SetItem(n1, "nullable", Bool(TRUE))),
                        raised |-> FALSE]
                  ELSE [doc |-> root1, raised |-> FALSE]
    ELSE [doc |-> root, raised |-> FALSE]

(* variant: example is taken from the end of the list, examples[-1] *)
RuleBLast(n) ==
    IF Has(n, "examples")
    THEN LET examples == GetItem(n, "examples")
             m        == Pop(n, "examples")
         IN  IF IsList(examples) /\ Len(examples.e) > 0
             THEN SetItem(m, "example", examples.e[Len(examples.e)])
             ELSE m
    ELSE n

(* variant: examples is read with get and stays on the node *)
RuleBGet(n) ==
    IF Has(n, "examples")
    THEN LET examples == GetItem(n, "examples")
         IN  IF IsList(examples) /\ Len(examples.e) > 0
             THEN SetItem(n, "example", examples.e[1])
             ELSE n
    ELSE n

(* "Convert `examples` to `example`" on the dict n *)
RuleB(n) ==
    IF Has(n, "examples")
    THEN LET examples == GetItem(n, "examples")
             m        == Pop(n, "examples")
         IN  IF IsList(examples) /\ Len(examples.e) > 0
             THEN SetItem(m, "example", examples.e[1])
             ELSE m
    ELSE n

RECURSIVE ChildPathsFrom(_, _, _)
ChildPathsFrom(p, i, n) ==
    IF i > n THEN <<>> ELSE <<Append(p, i)>> \o ChildPathsFrom(p, i + 1, n)

(* the calls inner(value) / inner(item) the node at path p makes, in order *)
ChildPaths(v, p) == ChildPathsFrom(p, 1, NumChildren(v))

(* line 18, then the call inner(json_content) of line 43 *)
Call ==
    /\ pc = "call"
    /\ IF IsDict(doc)
       THEN /\ doc' = Stamp(doc)
            /\ todo' = << <<>> >>
            /\ pc' = "inner"
            /\ exc' = exc
       ELSE /\ pc' = "raised"
            /\ exc' = "TypeError"
            /\ UNCHANGED <<doc, todo>>
    /\ UNCHANGED <<calls, first, arg, src, destEnv, diskOK, dest, log>>

(* inner(yaml_dict) on a dict: rule A, rule B, then one call per value *)
InnerDict ==
    /\ pc = "inner"
    /\ todo # <<>>
    /\ IsDict(GetAt(doc, Head(todo)))
    /\ LET p == Head(todo)
           a == RuleA(doc, p)
           n == RuleB(GetAt(a.doc, p))
       IN  IF a.raised
           THEN /\ doc' = a.doc
                /\ todo' = <<>>
                /\ pc' = "raised"
                /\ exc' = "TypeError"
           ELSE /\ doc' = SetAt(a.doc, p, n)
                /\ todo' = ChildPaths(n, p) \o Tail(todo)
                /\ UNCHANGED <<pc, exc>>
    /\ UNCHANGED <<calls, first, arg, src, destEnv, diskOK, dest, log>>

(* variant: inner without its elif branch, lists are not walked *)
InnerListSkip ==
    /\ pc = "inner"
    /\ todo # <<>>
    /\ IsList(GetAt(doc, Head(todo)))
    /\ todo' = Tail(todo)
    /\ UNCHANGED <<pc, doc, calls, first, arg, exc, src, destEnv, diskOK, dest, log>>

(* inner(yaml_dict) on a list: one call per item *)
InnerList ==
    /\ pc = "inner"
    /\ todo # <<>>
    /\ IsList(GetAt(doc, Head(todo)))
    /\ todo' = ChildPaths(GetAt(doc, Head(todo)), Head(todo)) \o Tail(todo)
    /\ UNCHANGED <<pc, doc, calls, first, arg, exc, src, destEnv, diskOK, dest, log>>

(* inner(yaml_dict) on anything else: neither branch is taken *)
InnerLeaf ==
    /\ pc = "inner"
    /\ todo # <<>>
    /\ ~IsDict(GetAt(doc, Head(todo)))
    /\ ~IsList(GetAt(doc, Head(todo)))
    /\ todo' = Tail(todo)
    /\ UNCHANGED <<pc, doc, calls, first, arg, exc, src, destEnv, diskOK, dest, log>>

(* return json_content *)
Return ==
    /\ pc = "inner"
    /\ todo = <<>>
    /\ pc' = "returned"
    /\ calls' = calls + 1
    /\ first' = IF calls = 0 THEN doc ELSE first
    /\ UNCHANGED <<doc, todo, arg, exc, src, destEnv, diskOK, dest, log>>

----------------------------------------------------------------------------
(* load_and_convert *)

(* open(source_path, "r") *)
OpenSource ==
    /\ pc = "open_src"
    /\ IF src = "missing"
       THEN pc' = "raised" /\ exc' = "FileNotFoundError"
       ELSE IF src = "unreadable"
            THEN pc' = "raised" /\ exc' = "PermissionError"
            ELSE IF src = "directory"
                 THEN pc' = "raised" /\ exc' = "IsADirectoryError"
                 ELSE pc' = "load" /\ exc' = exc
    /\ UNCHANGED <<doc, todo, calls, first, arg, src, destEnv, diskOK, dest, log>>

(* content = json.load(src_file); then the call of line 58 *)
Load ==
    /\ pc = "load"
    /\ IF src = "malformed"
       THEN pc' = "raised" /\ exc' = "JSONDecodeError" /\ doc' = doc
       ELSE IF src = "badutf8"
            THEN pc' = "raised" /\ exc' = "UnicodeDecodeError" /\ doc' = doc
            ELSE IF src = "toodeep"
                 THEN pc' = "raised" /\ exc' = "RecursionError" /\ doc' = doc
                 ELSE pc' = "call" /\ exc' = exc /\ doc' = arg
    /\ UNCHANGED <<todo, calls, first, arg, src, destEnv, diskOK, dest, log>>

(* open(dest_path, "w"): creates or truncates the destination *)
OpenDest ==
    /\ pc = "returned"
    /\ IF destEnv = "ok"
       THEN pc' = "dump" /\ dest' = "truncated" /\ exc' = exc
       ELSE IF destEnv = "nodir"
            THEN pc' = "raised" /\ exc' = "FileNotFoundError" /\ dest' = dest
            ELSE IF destEnv = "directory"
                 THEN pc' = "raised" /\ exc' = "IsADirectoryError" /\ dest' = dest
                 ELSE pc' = "raised" /\ exc' = "PermissionError" /\ dest' = dest
    /\ UNCHANGED <<doc, todo, calls, first, arg, src, destEnv, diskOK, log>>

(* json.dump(converted_content, dest_file, indent=2) *)
Dump ==
    /\ pc = "dump"
    /\ IF diskOK
       THEN pc' = "done" /\ dest' = "written" /\ exc' = exc
       ELSE pc' = "raised" /\ exc' = "OSError" /\ dest' = dest
    /\ UNCHANGED <<doc, todo, calls, first, arg, src, destEnv, diskOK, log>>

(* the exception classes the except clauses are matched against: those the
   pipeline raises, their base classes, and the classes next to Exception
   under BaseException *)
Classes ==
    {"BaseException", "Exception", "KeyboardInterrupt", "SystemExit", "GeneratorExit",
     "BaseExceptionGroup", "OSError", "FileNotFoundError", "PermissionError",
     "IsADirectoryError", "ValueError", "JSONDecodeError", "UnicodeError",
     "UnicodeDecodeError", "RuntimeError", "RecursionError", "TypeError"}

(* the base class of a class; BaseException is the root *)
Parent(c) ==
    CASE c \in {"FileNotFoundError", "PermissionError", "IsADirectoryError"} -> "OSError"
      [] c \in {"JSONDecodeError", "UnicodeError"} -> "ValueError"
      [] c = "UnicodeDecodeError" -> "UnicodeError"
      [] c = "RecursionError" -> "RuntimeError"
      [] c \in {"OSError", "ValueError", "RuntimeError", "TypeError"} -> "Exception"
      [] c \in {"Exception", "KeyboardInterrupt", "SystemExit", "GeneratorExit",
                "BaseExceptionGroup", "BaseException"} -> "BaseException"

(* issubclass(c, d): what `except d` asks of an exception of class c *)
RECURSIVE IsSubclass(_, _)
IsSubclass(c, d) ==
    IF c = d THEN TRUE
    ELSE IF c = "BaseException" THEN FALSE
    ELSE IsSubclass(Parent(c), d)

(* variant: load_and_convert without its except Exception clause *)
HandlerNarrow(e) ==
    IF e \in {"FileNotFoundError", "JSONDecodeError"} THEN 1 ELSE 0

(* the except clause that takes the exception e: 1 is
   except (FileNotFoundError, json.JSONDecodeError), 2 is except Exception,
   0 is none *)
Handler(e) ==
    IF IsSubclass(e, "FileNotFoundError") \/ IsSubclass(e, "JSONDecodeError") THEN 1
    ELSE IF IsSubclass(e, "Exception") THEN 2
    ELSE 0

(* the except clauses of load_and_convert *)
Except ==
    /\ pc = "raised"
    /\ IF Handler(exc) = 1
       THEN pc' = "done" /\ exc' = "none" /\ log' = Append(log, "Error processing file")
       ELSE IF Handler(exc) = 2
            THEN pc' = "done" /\ exc' = "none" /\ log' = Append(log, "Unexpected error")
            ELSE pc' = "propagated" /\ exc' = exc /\ log' = log
    /\ UNCHANGED <<doc, todo, calls, first, arg, src, destEnv, diskOK, dest>>

----------------------------------------------------------------------------
(* Input documents *)

MaxLen == 2      \* longest anyOf / examples list of the generated schemas
MaxCalls == 2    \* number of times the caller applies the conversion

RECURSIVE SeqsUpTo(_, _)
SeqsUpTo(S, k) ==
    IF k = 0 THEN {<<>>}
    ELSE LET r == SeqsUpTo(S, k - 1)
         IN  r \cup {Append(q, x) : q \in {q \in r : Len(q) = k - 1}, x \in S}

TNull   == Dict(<< <<"type", Str("null")>> >>)
TString == Dict(<< <<"type", Str("string")>> >>)
TObject == Dict(<< <<"type", Str("object")>> >>)
TNone   == Dict(<< <<"type", Null>> >>)

(* a schema that needs both rules below the node that holds it *)
Nested ==
    Dict(<< <<"anyOf", List(<<TNull>>)>>,
            <<"examples", List(<<Dict(<< <<"examples", List(<<Num(1)>>)>> >>)>>)>> >>)

Items == {TNull, TString, TNone, Str("null"), Nested}

ItemLists == {List(q) : q \in SeqsUpTo(Items, MaxLen)}

TypeLists == {List(q) : q \in SeqsUpTo({TNull, TString}, MaxLen)}

Pet ==
    Dict(<< <<"anyOf", List(<<TObject, TNull>>)>>,
            <<"examples", List(<<Dict(<< <<"id", Num(1)>> >>)>>)>> >>)

Schemas ==
    {Dict(<< <<"anyOf", a>> >>) : a \in ItemLists \cup {Str("null")}}
    \cup {Dict(<< <<"anyOf", a>>, <<"nullable", Bool(FALSE)>> >>) : a \in ItemLists}
    \cup {Dict(<< <<"examples", e>> >>) : e \in ItemLists \cup {Str("a"), Null}}
    \cup {Dict(<< <<"example", Num(0)>>, <<"examples", e>> >>) : e \in ItemLists \cup {Str("a")}}
    \cup {Pet}

(* values of the root's own anyOf field *)
RootAnyOfs ==
    TypeLists
    \cup {Dict(<<>>), Dict(<< <<"anyOf", List(<<>>)>> >>),
          Dict(<< <<"examples", List(<<>>)>>, <<"k", Num(1)>> >>)}
    \cup {Str("ab"), Num(1), Null}

Version == <<"openapi", Str("3.1.0")>>

SchemaDocs ==
    {Dict(<<Version, <<"a", n>> >>) : n \in Schemas}
    \cup {Dict(<<Version, <<"a", n>>, <<"anyOf", r>> >>) : n \in Schemas, r \in RootAnyOfs}
    \cup {Dict(<<Version, <<"anyOf", r>>, <<"a", n>> >>) : n \in Schemas, r \in RootAnyOfs}

(* roots that carry the rewritten fields themselves, and other versions *)
RootDocs ==
    {Dict(<<>>),
     Dict(<< <<"openapi", Num(3)>> >>),
     Dict(<< <<"openapi", Str("3.0.2")>>, <<"a", List(<<TString>>)>> >>),
     Dict(<< <<"a", Dict(<< <<"openapi", Str("3.1.0")>>, <<"anyOf", List(<<TNull>>)>> >>)>>,
             <<"openapi", Str("3.1.0")>> >>),
     Dict(<<Version, <<"nullable", Bool(FALSE)>>, <<"anyOf", List(<<TNull, TString>>)>>,
            <<"examples", List(<<Nested, TNull>>)>> >>),
     Dict(<<Version, <<"components", Dict(<< <<"schemas", Dict(<< <<"Pet", Pet>> >>)>> >>)>> >>)}

(* parsed documents whose root is no dict *)
OtherRoots == {List(<<Pet>>), Str("3.1.0"), Num(1), Bool(TRUE), Null}

Docs == SchemaDocs \cup RootDocs \cup OtherRoots

LoadDocs == RootDocs \cup OtherRoots \cup {Dict(<<Version, <<"anyOf", Num(1)>>, <<"a", Pet>> >>)}

----------------------------------------------------------------------------
(* A caller that applies the conversion to a document, then to its result *)

Init ==
    /\ arg \in Docs
    /\ doc = arg
    /\ pc = "call"
    /\ todo = <<>>
    /\ calls = 0
    /\ first = Null
    /\ exc = "none"
    /\ src = "ok"
    /\ destEnv = "ok"
    /\ diskOK = TRUE
    /\ dest = "untouched"
    /\ log = <<>>

Again ==
    /\ pc = "returned"
    /\ calls < MaxCalls
    /\ pc' = "call"
    /\ UNCHANGED <<doc, todo, calls, first, arg, exc, src, destEnv, diskOK, dest, log>>

Next ==
    \/ Call
    \/ InnerDict
    \/ InnerList
    \/ InnerLeaf
    \/ Return
    \/ Again

Spec == Init /\ [][Next]_vars

(* load_and_convert(source_path, dest_path) in each environment *)
InitLoad ==
    /\ arg \in LoadDocs
    /\ src \in {"ok", "missing", "unreadable", "directory", "malformed", "badutf8", "toodeep"}
    /\ destEnv \in {"ok", "nodir", "denied", "directory"}
    /\ diskOK \in BOOLEAN
    /\ doc = Null
    /\ pc = "open_src"
    /\ todo = <<>>
    /\ calls = 0
    /\ first = Null
    /\ exc = "none"
    /\ dest = "untouched"
    /\ log = <<>>

NextLoad ==
    \/ OpenSource
    \/ Load
    \/ Call
    \/ InnerDict
    \/ InnerList
    \/ InnerLeaf
    \/ Return
    \/ OpenDest
    \/ Dump
    \/ Except

SpecLoad == InitLoad /\ [][NextLoad]_vars

----------------------------------------------------------------------------
(* Vocabulary of the properties *)

(* an anyOf entry that is an Object whose type is the string "null" *)
IsNullBranch(item) ==
    /\ item.t = "dict"
    /\ \E i \in 1..Len(item.f) : item.f[i] = <<"type", [t |-> "str", s |-> "null"]>>

HasNullBranch(l) == \E i \in 1..Len(l.e) : IsNullBranch(l.e[i])

HasAnyOfList(n) == Has(n, "anyOf") /\ GetItem(n, "anyOf").t = "list"

(* the field k is on both nodes with one value, or on neither *)
SameField(b, a, k) ==
    /\ Has(b, k) <=> Has(a, k)
    /\ Has(b, k) => GetItem(a, k) = GetItem(b, k)

(* the next step is a call of inner on the Object at path Head(todo) *)
Visiting == pc = "inner" /\ todo # <<>> /\ GetAt(doc, Head(todo)).t = "dict"

(* ... and it runs to its recursive calls without raising *)
Visited == Visiting /\ pc' = "inner"

Before == GetAt(doc, Head(todo))
After  == GetAt(doc', Head(todo))

(* the Object nodes of a tree *)
Objects(v) == {p \in Paths(v) : GetAt(v, p).t = "dict"}

(* the document has a schema under the root key "a" *)
HasSchema(v) == v.t = "dict" /\ Has(v, "a") /\ GetItem(v, "a").t = "dict"

SchemaOf(v) == GetItem(v, "a")

(* C1: when the visit of an Object node removes an element from the node's
   anyOf list, the node's nullable field is true afterwards. *)
C1_NullableWhenShrunk ==
    [][(Visited /\ HasAnyOfList(Before)
            /\ Len(GetItem(After, "anyOf").e) < Len(GetItem(Before, "anyOf").e))
        => (Has(After, "nullable") /\ GetItem(After, "nullable") = Bool(TRUE))]_vars

(* C2: when the anyOf list of the visited Object node holds no null-typed
   Object, the visit leaves the list as it was and adds no nullable field. *)
C2_NoOpWithoutNullBranch ==
    [][(Visited /\ HasAnyOfList(Before) /\ ~HasNullBranch(GetItem(Before, "anyOf")))
        => /\ GetItem(After, "anyOf") = GetItem(Before, "anyOf")
           /\ ~Has(Before, "nullable") => ~Has(After, "nullable")]_vars

(* C3: the visit of an Object node with an examples field removes the field;
   a non-empty list gives its first element to example, anything else leaves
   the example field as it was (absent stays absent). *)
C3_ExamplesCollapsed ==
    [][(Visited /\ Has(Before, "examples"))
        => /\ ~Has(After, "examples")
           /\ LET ex == GetItem(Before, "examples")
              IN  IF ex.t = "list" /\ Len(ex.e) > 0
                  THEN Has(After, "example") /\ GetItem(After, "example") = ex.e[1]
                  ELSE SameField(Before, After, "example")]_vars

C3_Witness ==
    /\ pc = "returned" /\ calls = 1
    /\ HasSchema(arg) /\ HasSchema(doc)
    /\ Has(SchemaOf(arg), "examples")
    /\ GetItem(SchemaOf(arg), "examples") = List(<<TString, TNull>>)
    /\ Has(SchemaOf(arg), "example")
    /\ GetItem(SchemaOf(arg), "example") = Num(0)
    /\ ~Has(SchemaOf(doc), "examples")
    /\ Has(SchemaOf(doc), "example")
    /\ GetItem(SchemaOf(doc), "example") = TString

(* C4: when the conversion has returned, no anyOf list of any Object node of
   the tree holds a null-typed Object. *)
C4_NoNullBranchLeft ==
    pc = "returned" =>
        \A p \in Objects(doc) :
            HasAnyOfList(GetAt(doc, p)) => ~HasNullBranch(GetItem(GetAt(doc, p), "anyOf"))

(* a null branch three levels below the root, inside a surviving anyOf entry *)
C4_Witness ==
    /\ pc = "returned" /\ calls = 1
    /\ HasSchema(arg) /\ HasSchema(doc)
    /\ HasAnyOfList(SchemaOf(arg))
    /\ GetItem(SchemaOf(arg), "anyOf") = List(<<Nested, TNull>>)
    /\ Len(GetItem(SchemaOf(doc), "anyOf").e) = 1
    /\ GetItem(GetItem(SchemaOf(doc), "anyOf").e[1], "anyOf") = List(<<>>)

(* C5: when the conversion has returned, no Object node of the tree has an
   examples field. *)
C5_NoExamplesLeft ==
    pc = "returned" => \A p \in Objects(doc) : ~Has(GetAt(doc, p), "examples")

(* examples inside the first element of a removed examples list *)
C5_Witness ==
    /\ pc = "returned" /\ calls = 1
    /\ HasSchema(arg) /\ HasSchema(doc)
    /\ Has(SchemaOf(arg), "examples")
    /\ GetItem(SchemaOf(arg), "examples") = List(<<Nested>>)
    /\ Has(SchemaOf(doc), "example")
    /\ GetItem(GetItem(SchemaOf(doc), "example"), "example")
         = Dict(<< <<"example", Num(1)>> >>)

(* C6: converting the result of a conversion gives that result again. *)
C6_Idempotent == (pc = "returned" /\ calls >= 2) => doc = first

(* C7: once line 18 has run on an Object root, the root's openapi field is
   "3.0.2" and stays so; the visit of a non-root Object keeps its openapi. *)
C7_VersionStamped ==
    [][/\ (pc' \in {"inner", "returned"} \/ (pc' = "raised" /\ doc'.t = "dict"))
            => (Has(doc', "openapi") /\ GetItem(doc', "openapi") = Str("3.0.2"))
       /\ (Visiting /\ Head(todo) # <<>>) => SameField(Before, After, "openapi")]_vars

C7_Witness ==
    /\ pc = "returned"
    /\ arg.t = "dict" /\ Has(arg, "openapi") /\ GetItem(arg, "openapi") = Str("3.1.0")
    /\ GetItem(doc, "openapi") = Str("3.0.2")
    /\ \E p \in Objects(doc) :
          /\ p # <<>>
          /\ Has(GetAt(doc, p), "openapi")
          /\ GetItem(GetAt(doc, p), "openapi") = Str("3.1.0")

(* the items of an Object that neither rule names, in their order *)
IsOtherItem(item) == item[1] \notin {"anyOf", "nullable", "examples", "example"}

Others(n) == SelectSeq(n.f, IsOtherItem)

(* a is b with some elements removed, the order kept *)
RECURSIVE IsSubSeq(_, _)
IsSubSeq(a, b) ==
    IF a = <<>> THEN TRUE
    ELSE IF b = <<>> THEN FALSE
    ELSE IF Head(a) = Head(b) THEN IsSubSeq(Tail(a), Tail(b))
    ELSE IsSubSeq(a, Tail(b))

(* C8: line 18 changes only the root's openapi field; a call of inner on an
   Object changes only that Object: its other fields keep key, value and
   order, its anyOf field stays (a list loses elements at most, any other
   value is kept); every other step leaves the tree as it is, and a call of
   inner on a String, Number, Boolean or Null makes no further call. *)
C8_Frame ==
    [][/\ (pc = "call" /\ doc.t = "dict") => Pop(doc', "openapi") = Pop(doc, "openapi")
       /\ (pc = "call" /\ doc.t # "dict") => doc' = doc
       /\ (pc # "call" /\ ~Visiting) => doc' = doc
       /\ (pc = "inner" /\ todo # <<>> /\ GetAt(doc, Head(todo)).t \notin {"dict", "list"})
            => todo' = Tail(todo)
       /\ Visiting =>
            /\ doc' = SetAt(doc, Head(todo), After)
            /\ After.t = "dict"
            /\ Others(After) = Others(Before)
            /\ Has(After, "anyOf") <=> Has(Before, "anyOf")
            /\ Has(Before, "anyOf") =>
                 IF GetItem(Before, "anyOf").t = "list"
                 THEN /\ GetItem(After, "anyOf").t = "list"
                      /\ IsSubSeq(GetItem(After, "anyOf").e, GetItem(Before, "anyOf").e)
                 ELSE GetItem(After, "anyOf") = GetItem(Before, "anyOf")]_vars

(* filtering left the anyOf list empty: the field is still there *)
C8_Witness ==
    /\ pc = "returned" /\ calls = 1
    /\ HasSchema(arg) /\ HasSchema(doc)
    /\ HasAnyOfList(SchemaOf(arg))
    /\ GetItem(SchemaOf(arg), "anyOf") = List(<<TNull, TNull>>)
    /\ Has(SchemaOf(doc), "anyOf")
    /\ GetItem(SchemaOf(doc), "anyOf") = List(<<>>)

(* the source could not be opened, did not parse, or its root is no Object *)
SourceFails == src # "ok" \/ arg.t # "dict"

(* C9: the destination is touched only after the source was opened, parsed
   and converted; when the source fails, load_and_convert ends with the
   destination untouched and one error logged; no exception leaves it. *)
C9_NoWriteOnFailure ==
    /\ dest # "untouched" => (src = "ok" /\ arg.t = "dict" /\ calls = 1)
    /\ (pc = "done" /\ SourceFails) => (dest = "untouched" /\ Len(log) = 1)
    /\ pc # "propagated"

C9_Witness ==
    /\ pc = "done"
    /\ src = "ok" /\ arg.t = "list"
    /\ destEnv = "ok" /\ diskOK
    /\ dest = "untouched"
    /\ log = <<"Unexpected error">>

(* the length the filtered anyOf list of the visited node is compared with:
   that of the root's anyOf field, read after the node's list was filtered *)
ComparedLength ==
    IF Head(todo) = <<>>
    THEN Len(GetItem(After, "anyOf").e)
    ELSE IF Has(doc, "anyOf")
         THEN LET r == GetItem(doc, "anyOf")
              IN  IF r.t = "list" THEN Len(r.e)
                  ELSE IF r.t = "dict" THEN Len(r.f) ELSE Len(r.s)
         ELSE 0

(* C10: the visit of an Object with an anyOf list sets nullable to true when
   the filtered list is shorter than the root's anyOf field, and leaves the
   nullable field alone otherwise; so no visit touches nullable when the root
   has no anyOf field, and the visit of the root never does. *)
C10_NullableFollowsRoot ==
    [][/\ (Visited /\ HasAnyOfList(Before)) =>
            IF Len(GetItem(After, "anyOf").e) < ComparedLength
            THEN Has(After, "nullable") /\ GetItem(After, "nullable") = Bool(TRUE)
            ELSE SameField(Before, After, "nullable")
       /\ (Visiting /\ ~Has(doc, "anyOf")) => SameField(Before, After, "nullable")
       /\ (Visiting /\ Head(todo) = <<>>) => SameField(Before, After, "nullable")]_vars

(* a null branch was removed below a root without anyOf: no nullable *)
C10_Witness ==
    /\ pc = "returned" /\ calls = 1
    /\ HasSchema(arg) /\ HasSchema(doc)
    /\ ~Has(arg, "anyOf")
    /\ HasAnyOfList(SchemaOf(arg))
    /\ GetItem(SchemaOf(arg), "anyOf") = List(<<TString, TNull>>)
    /\ GetItem(SchemaOf(doc), "anyOf") = List(<<TString>>)
    /\ ~Has(SchemaOf(doc), "nullable")

====
